---- MODULE Spec2Model ----
(***************************************************************************)
(* A model of the updatest scraper tool: the Shopify catalog indexer       *)
(* (src/scraper/shopify_catalog.py), the input normaliser _normalise_rows  *)
(* and the catalog caching of the Streamlit front end (src/app.py).        *)
(*                                                                         *)
(* Strings are sequences of one-character strings, so that strip(),        *)
(* lower() and lstrip("0") are computed character by character.  None and  *)
(* the empty string are both the empty sequence: the code tests them with  *)
(* `not sku` / `or`, which does not tell them apart.                       *)
(***************************************************************************)
EXTENDS Integers, Sequences, FiniteSets, TLC

VARIABLES
    \* ---- ShopifyCatalogIndexer (one instance) ----
    catalog,      \* self.catalog: normalised key -> variant record
    indexed,      \* self.indexed
    pc,           \* position of the fetch_catalog coroutine
    page,         \* local `page`
    total_skus,   \* local `total_skus`
    ret,          \* value returned by the last fetch_catalog call (-1: none yet)
    lk,           \* the lookup_sku call that has just returned: query, outcome
    requests,     \* history: pages requested by the current/last call, in order
    served,       \* history: product lists served with status 200, all calls
    calls,        \* history: number of fetch_catalog calls started
    endReason,    \* history: why the current/last call left its loop
    \* ---- SKU key normalisation on its own ----
    raw,          \* a raw SKU string
    keyed,        \* what the key computations gave for it
    \* ---- _normalise_rows ----
    rows,         \* the input list
    ri,           \* index of the next row of the for loop
    seen,         \* local `seen`
    out,          \* local `out`
    \* ---- app.main: catalog cache ----
    now,          \* wall clock, seconds
    cache,        \* st.cache_resource entries of get_cached_indexer
    fetches,      \* history: fetch_catalog runs started since the last clearing event
    lastIndexer   \* the indexer the last handler run ended up with

idxVars   == <<catalog, indexed, pc, page, total_skus, ret, lk, requests, served,
               calls, endReason>>
keyVars   == <<raw, keyed>>
normVars  == <<rows, ri, seen, out>>
cacheVars == <<now, cache, fetches, lastIndexer>>
vars      == <<idxVars, keyVars, normVars, cacheVars>>

(***************************************************************************)
(* Bounds of the model.                                                    *)
(***************************************************************************)
MaxPages    == 2   \* non-empty pages the feed serves to one indexer, in total
MaxProducts == 2   \* products on a page
MaxVariants == 2   \* variants of a product
MaxCalls    == 2   \* fetch_catalog calls on one indexer
MaxFeedVariants == 2   \* variants the feed serves to one indexer, in total
MaxSkuLen   == 3   \* length of a raw SKU in the key computation
MaxRows     == 2   \* rows given to _normalise_rows
MaxKeys     == 2   \* columns of a row
MaxClock    == 7200  \* the clock stops here
TickSecs    == 1800  \* granularity of the clock
MaxFetches  == 3   \* fetch_catalog runs for one origin between two clearing events

(***************************************************************************)
(* str methods.                                                            *)
(***************************************************************************)
Chars == {" ", "0", "a", "A"}

IsSpace(c) == c = " "

LowerChar(c) == IF c = "A" THEN "a" ELSE c

\* str.lower()
lower(s) == [i \in 1..Len(s) |-> LowerChar(s[i])]

RECURSIVE lstrip_ws(_)
lstrip_ws(s) == IF s # <<>> /\ IsSpace(Head(s)) THEN lstrip_ws(Tail(s)) ELSE s

RECURSIVE rstrip_ws(_)
rstrip_ws(s) ==
    IF s # <<>> /\ IsSpace(s[Len(s)]) THEN rstrip_ws(SubSeq(s, 1, Len(s) - 1)) ELSE s

\* str.strip()
strip(s) == rstrip_ws(lstrip_ws(s))

\* str.lstrip("0")
RECURSIVE lstrip_zero(_)
lstrip_zero(s) == IF s # <<>> /\ Head(s) = "0" THEN lstrip_zero(Tail(s)) ELSE s

\* `not x` / `x or y` on an Optional[str]
Falsy(s) == s = <<>>

Or(a, b) == IF Falsy(a) THEN b ELSE a

(***************************************************************************)
(* ShopifyCatalogIndexer: the key computations.                            *)
(***************************************************************************)
IndexKey_NoZeroStrip(sku) == lower(strip(sku))

\* _index_product, lines 79-82
IndexKey(sku) ==
    LET sku_str == lower(strip(sku))
        sku_key == lstrip_zero(sku_str)
    IN  IF Falsy(sku_key) THEN sku_str ELSE sku_key

LookupKey_NoZeroStrip(sku) == lower(strip(sku))

\* lookup_sku, lines 114-117
LookupKey(sku) ==
    LET sku_str == lower(strip(sku))
        sku_key == lstrip_zero(sku_str)
    IN  IF Falsy(sku_key) THEN sku_str ELSE sku_key

(***************************************************************************)
(* The products.json feed.  A variant is a JSON object with a sku, or a     *)
(* malformed element (wf = FALSE: not an object, so variant.get raises).   *)
(* A product is its list of variants; a page is a non-empty list of        *)
(* products.  A product whose "variants" is not a list raises before any   *)
(* of its variants is read, like a product whose first variant is          *)
(* malformed.                                                              *)
(***************************************************************************)
FeedSkus == { <<>>, <<" ">>, <<"0">>, <<"0", "0">>, <<"0", "A">>, <<"a", " ">> }

LookupSkus == FeedSkus \cup { <<"A">> }

Malformed == [sku |-> <<>>, wf |-> FALSE]

Variants == [sku : FeedSkus, wf : {TRUE}] \cup {Malformed}

SeqsUpTo(S, n) == UNION {[1..k -> S] : k \in 0..n}

\* The products of at most b variants, the lists of n products of at most b
\* variants together, and the pages (non-empty lists) of at most b variants.
ProductsWithin(b) == SeqsUpTo(Variants, IF b < MaxVariants THEN b ELSE MaxVariants)

RECURSIVE ProductLists(_, _)
ProductLists(n, b) ==
    IF n = 0 THEN {<<>>}
    ELSE UNION {{<<p>> \o rest : rest \in ProductLists(n - 1, b - Len(p))} :
                p \in ProductsWithin(b)}

PagesWithin(b) == UNION {ProductLists(n, b) : n \in 1..MaxProducts}

RECURSIVE SumLen(_, _)
SumLen(ss, i) == IF i > Len(ss) THEN 0 ELSE Len(ss[i]) + SumLen(ss, i + 1)

\* Number of variants on a page, and in a list of pages.
PageSize(products) == SumLen(products, 1)

RECURSIVE FeedSize(_, _)
FeedSize(pages, i) ==
    IF i > Len(pages) THEN 0 ELSE PageSize(pages[i]) + FeedSize(pages, i + 1)

(***************************************************************************)
(* ShopifyCatalogIndexer.                                                  *)
(***************************************************************************)
EmptyCatalog == [k \in {} |-> 0]

NoRecord == [sku |-> <<>>, variant_id |-> <<0, 0, 0>>]

\* variant_data, lines 85-100: the display sku and the variant's identity.  The
\* other fields are copied from the feed and read by nothing in the indexer.
VariantData(variant, id) == [sku |-> variant.sku, variant_id |-> id]

Store_KeepFirst(cat, k, v) == IF k \in DOMAIN cat THEN cat ELSE (k :> v) @@ cat

\* self.catalog[sku_key] = variant_data, line 103
Store(cat, k, v) == (k :> v) @@ cat

\* for variant in variants: ..., lines 71-103.  n, i: the served page's serial
\* number and the product's index on it, which give the variant its id.
RECURSIVE index_variants(_, _, _, _, _)
index_variants(cat, variants, j, n, i) ==
    IF j > Len(variants) THEN [catalog |-> cat, raised |-> FALSE]
    ELSE LET variant == variants[j] IN
         IF ~variant.wf THEN [catalog |-> cat, raised |-> TRUE]
         ELSE IF Falsy(variant.sku) THEN index_variants(cat, variants, j + 1, n, i)
         ELSE index_variants(
                  Store(cat, IndexKey(variant.sku), VariantData(variant, <<n, i, j>>)),
                  variants, j + 1, n, i)

\* _index_product, lines 55-103
index_product(cat, product, n, i) == index_variants(cat, product, 1, n, i)

\* for product in products: self._index_product(product), lines 41-42; an
\* exception leaves the loop with what was stored so far.
RECURSIVE index_products(_, _, _, _)
index_products(cat, products, i, n) ==
    IF i > Len(products) THEN [catalog |-> cat, raised |-> FALSE]
    ELSE LET r == index_product(cat, products[i], n, i) IN
         IF r.raised THEN r ELSE index_products(r.catalog, products, i + 1, n)

NextPage_Stuck(p) == p

\* page += 1, line 45
NextPage(p) == p + 1

OnFailure_Continue(p) == [pc |-> "request", page |-> p + 1]

\* break, lines 33 and 50: leave the while loop, the page unchanged
OnFailure(p) == [pc |-> "closing", page |-> p]

None == [kind |-> "none", rec |-> NoRecord]

Found(rec) == [kind |-> "found", rec |-> rec]

Raised == [kind |-> "error", rec |-> NoRecord]

lookup_sku_Raises(cat, idx, sku) ==
    IF ~idx THEN Raised
    ELSE LET sku_key == LookupKey(sku) IN
         IF sku_key \in DOMAIN cat THEN Found(cat[sku_key]) ELSE None

\* lookup_sku, lines 105-119
lookup_sku(cat, idx, sku) ==
    IF ~idx THEN None
    ELSE LET sku_key == LookupKey(sku) IN
         IF sku_key \in DOMAIN cat THEN Found(cat[sku_key]) ELSE None

NoLookup == [acted |-> FALSE, q |-> <<>>, res |-> None]

\* __init__, lines 9-13, and no call made yet
InitIdx ==
    /\ catalog = EmptyCatalog
    /\ indexed = FALSE
    /\ pc = "idle"
    /\ page = 0
    /\ total_skus = 0
    /\ ret = -1
    /\ lk = NoLookup
    /\ requests = <<>>
    /\ served = <<>>
    /\ calls = 0
    /\ endReason = "none"

\* The indexer's steps leave the other parts alone.
IdxOnly == UNCHANGED <<keyVars, normVars, cacheVars>>

\* fetch_catalog is called: lines 21-24
FetchStart ==
    /\ pc = "idle"
    /\ calls < MaxCalls
    /\ pc' = "request"
    /\ page' = 1
    /\ total_skus' = 0
    /\ requests' = <<>>
    /\ calls' = calls + 1
    /\ endReason' = "none"
    /\ lk' = NoLookup
    /\ UNCHANGED <<catalog, indexed, ret, served>>
    /\ IdxOnly

\* A page request that fails, lines 27-33 and 48-50.
PageFails(reason) ==
    /\ pc = "request"
    /\ requests' = Append(requests, page)
    /\ pc' = OnFailure(page).pc
    /\ page' = OnFailure(page).page
    /\ endReason' = reason
    /\ lk' = NoLookup
    /\ UNCHANGED <<catalog, indexed, total_skus, ret, served, calls>>
    /\ IdxOnly

\* response.status_code != 200, lines 31-33
RespNon200 == PageFails("status")

\* client.get raises (connection error, timeout), lines 30 and 48-50
RespRaises == PageFails("exception")

\* response.json() raises, or the body is no object, lines 35-36 and 48-50
RespBadBody == PageFails("body")

\* status 200, and no or an empty "products": lines 36-39
RespEmpty ==
    /\ pc = "request"
    /\ requests' = Append(requests, page)
    /\ pc' = "closing"
    /\ endReason' = "empty"
    /\ lk' = NoLookup
    /\ UNCHANGED <<catalog, indexed, page, total_skus, ret, served, calls>>
    /\ IdxOnly

\* status 200 and a non-empty product list: lines 36-46, and 48-50 when
\* indexing a product raises.
RespProducts ==
    /\ pc = "request"
    /\ Len(served) < MaxPages
    /\ \E products \in PagesWithin(MaxFeedVariants - FeedSize(served, 1)) :
         /\ LET r == index_products(catalog, products, 1, Len(served) + 1) IN
              /\ catalog' = r.catalog
              /\ IF r.raised
                 THEN /\ pc' = OnFailure(page).pc
                      /\ page' = OnFailure(page).page
                      /\ endReason' = "index"
                      /\ UNCHANGED total_skus
                 ELSE /\ total_skus' = Cardinality(DOMAIN r.catalog)
                      /\ page' = NextPage(page)
                      /\ pc' = "request"
                      /\ UNCHANGED endReason
         /\ served' = Append(served, products)
    /\ requests' = Append(requests, page)
    /\ lk' = NoLookup
    /\ UNCHANGED <<indexed, ret, calls>>
    /\ IdxOnly

\* The client is closed and the call returns: lines 52-53
FetchReturn ==
    /\ pc = "closing"
    /\ indexed' = TRUE
    /\ ret' = total_skus
    /\ pc' = "idle"
    /\ lk' = NoLookup
    /\ UNCHANGED <<catalog, page, total_skus, requests, served, calls, endReason>>
    /\ IdxOnly

\* lookup_sku(q) is called, at any point where the coroutine is suspended
Lookup ==
    /\ \E q \in LookupSkus :
         lk' = [acted |-> TRUE, q |-> q, res |-> lookup_sku(catalog, indexed, q)]
    /\ UNCHANGED <<catalog, indexed, pc, page, total_skus, ret, requests, served,
                   calls, endReason>>
    /\ IdxOnly

NextIdx ==
    \/ FetchStart
    \/ RespNon200
    \/ RespRaises
    \/ RespBadBody
    \/ RespEmpty
    \/ RespProducts
    \/ FetchReturn
    \/ Lookup

(***************************************************************************)
(* The key computation applied to one raw SKU, as _index_product and as    *)
(* lookup_sku do it.                                                       *)
(***************************************************************************)
RawSkus == SeqsUpTo(Chars, MaxSkuLen)

NotKeyed == [by |-> "none", key |-> <<>>]

InitKey ==
    /\ raw \in RawSkus
    /\ keyed = NotKeyed

KeyOnly == UNCHANGED <<idxVars, normVars, cacheVars>>

\* _index_product, lines 79-82
KeyAtIndexing ==
    /\ keyed.by # "index"
    /\ keyed' = [by |-> "index", key |-> IndexKey(raw)]
    /\ UNCHANGED raw
    /\ KeyOnly

\* lookup_sku, lines 114-117
KeyAtLookup ==
    /\ keyed.by # "lookup"
    /\ keyed' = [by |-> "lookup", key |-> LookupKey(raw)]
    /\ UNCHANGED raw
    /\ KeyOnly

NextKey ==
    \/ KeyAtIndexing
    \/ KeyAtLookup

(***************************************************************************)
(* app._normalise_rows.  A row is a dict from column names to strings; a   *)
(* column that is missing and one that holds None or "" read the same      *)
(* (r.get(c) is falsy), so the values are non-empty strings.               *)
(***************************************************************************)
Cols == {"SKU", "sku", "Sku", "URL", "url", "Url"}

Vals == { <<" ">>, <<"a">>, <<"A", " ">> }

RowPool == UNION {[D -> Vals] : D \in {E \in SUBSET Cols : Cardinality(E) <= MaxKeys}}

\* r.get(c)
get(r, c) == IF c \in DOMAIN r THEN r[c] ELSE <<>>

\* line 28: (r.get("SKU") or r.get("sku") or "").strip() or None
row_sku(r) == strip(Or(Or(get(r, "SKU"), get(r, "sku")), <<>>))

\* line 29: (r.get("URL") or r.get("url") or "").strip() or None
row_url(r) == strip(Or(Or(get(r, "URL"), get(r, "url")), <<>>))

dedup_key_CaseSensitive(sku, url) == <<Or(sku, <<>>), Or(url, <<>>)>>

\* line 34: key = (sku or "").lower(), (url or "").lower()
dedup_key(sku, url) == <<lower(Or(sku, <<>>)), lower(Or(url, <<>>))>>

\* _normalise_rows is called with a list of rows: lines 24-25
InitNorm ==
    /\ rows \in SeqsUpTo(RowPool, MaxRows)
    /\ ri = 1
    /\ seen = {}
    /\ out = <<>>

NormOnly == UNCHANGED <<idxVars, keyVars, cacheVars>>

\* One turn of `for r in rows`, lines 26-38
NormaliseRow ==
    /\ ri <= Len(rows)
    /\ LET r   == rows[ri]
           sku == row_sku(r)
           url == row_url(r)
           key == dedup_key(sku, url)
       IN  IF Falsy(sku) /\ Falsy(url)
           THEN UNCHANGED <<seen, out>>
           ELSE IF key \in seen
           THEN UNCHANGED <<seen, out>>
           ELSE /\ seen' = seen \cup {key}
                /\ out' = Append(out, [sku |-> sku, url |-> url])
    /\ ri' = ri + 1
    /\ UNCHANGED rows
    /\ NormOnly

NextNorm == NormaliseRow

(***************************************************************************)
(* app.main: the handlers that index a catalog, and the cache of           *)
(* get_cached_indexer.  st.cache_resource(ttl=3600) keeps one entry per    *)
(* argument value, drops an entry 3600 s after it was made, and clear()    *)
(* drops them all.  What fetch_catalog does is in the indexer's part; here *)
(* a run is a count, and whether it left the catalog empty.                *)
(***************************************************************************)
TTL == 3600

Urls == { <<>>, <<"s">>, <<"t">> }

CmsChoices == {"Neto", "Shopify", "WordPress (WooCommerce)"}

\* The origins a handler can be given ("" is the empty text input).
Origins == Urls \ {<<>>}

NoIndexer == [kind |-> "none", url |-> <<>>, at |-> 0]

InitCache ==
    /\ now = 0
    /\ cache = [u \in {} |-> 0]
    /\ fetches = [o \in Origins |-> 0]
    /\ lastIndexer = NoIndexer

CacheOnly == UNCHANGED <<idxVars, keyVars, normVars>>

\* The entries st.cache_resource still holds at time t.
Live(c, t) == {u \in DOMAIN c : t - c[u].at < TTL}

\* "Scrape Items" is pressed, lines 119-174.  items: whether _normalise_rows
\* gave any item; empty: whether a fetch_catalog run leaves the catalog empty.
ScrapeItems ==
    \E url \in Urls, cms \in CmsChoices, items \in BOOLEAN, empty \in BOOLEAN :
        /\ IF ~items
           THEN UNCHANGED <<cache, fetches, lastIndexer>>
           ELSE IF cms = "Shopify" /\ ~Falsy(url)
           THEN IF url \in Live(cache, now)
                THEN /\ lastIndexer' =
                          IF cache[url].empty THEN NoIndexer
                          ELSE [kind |-> "cached", url |-> url, at |-> cache[url].at]
                     /\ UNCHANGED <<cache, fetches>>
                ELSE /\ fetches[url] < MaxFetches
                     /\ lastIndexer' =
                          IF empty THEN NoIndexer
                          ELSE [kind |-> "cached", url |-> url, at |-> now]
                     /\ fetches' = [fetches EXCEPT ![url] = @ + 1]
                     /\ cache' = (url :> [at |-> now, empty |-> empty]) @@
                                 [u \in Live(cache, now) |-> cache[u]]
           ELSE /\ lastIndexer' = NoIndexer
                /\ UNCHANGED <<cache, fetches>>
        /\ UNCHANGED now
        /\ CacheOnly

\* "Index Catalog" is pressed in Catalog Indexer mode, lines 243-252
IndexCatalog ==
    \E url \in Origins :
        /\ fetches[url] < MaxFetches
        /\ fetches' = [fetches EXCEPT ![url] = @ + 1]
        /\ lastIndexer' = [kind |-> "fresh", url |-> url, at |-> now]
        /\ UNCHANGED <<now, cache>>
        /\ CacheOnly

\* "Clear Cache" is pressed, lines 91-93
ClearCache ==
    /\ cache' = [u \in {} |-> 0]
    /\ fetches' = [o \in Origins |-> 0]
    /\ UNCHANGED <<now, lastIndexer>>
    /\ CacheOnly

\* Time passes; the entries that reach their ttl go (line 151), which ends the
\* window of their origins.
Tick ==
    /\ now + TickSecs <= MaxClock
    /\ now' = now + TickSecs
    /\ cache' = [u \in Live(cache, now') |-> cache[u]]
    /\ fetches' = [o \in Origins |->
                     IF o \in DOMAIN cache \ Live(cache, now') THEN 0 ELSE fetches[o]]
    /\ UNCHANGED lastIndexer
    /\ CacheOnly

NextCache ==
    \/ ScrapeItems
    \/ IndexCatalog
    \/ ClearCache
    \/ Tick

(***************************************************************************)
(* Specifications.  Each part of the program has its own specification;    *)
(* the variables of the other parts rest at their initial values.          *)
(***************************************************************************)
RestIdx ==
    /\ catalog = EmptyCatalog /\ indexed = FALSE /\ pc = "idle" /\ page = 0
    /\ total_skus = 0 /\ ret = -1 /\ lk = NoLookup /\ requests = <<>>
    /\ served = <<>> /\ calls = 0 /\ endReason = "none"

RestKey == raw = <<>> /\ keyed = NotKeyed

RestNorm == rows = <<>> /\ ri = 1 /\ seen = {} /\ out = <<>>

RestCache ==
    /\ now = 0 /\ cache = [u \in {} |-> 0] /\ fetches = [o \in Origins |-> 0]
    /\ lastIndexer = NoIndexer

StartIdx == InitIdx /\ RestKey /\ RestNorm /\ RestCache

SpecIdx == StartIdx /\ [][NextIdx]_vars

StartKey == InitKey /\ RestIdx /\ RestNorm /\ RestCache

SpecKey == StartKey /\ [][NextKey]_vars

StartNorm == InitNorm /\ RestIdx /\ RestKey /\ RestCache

SpecNorm == StartNorm /\ [][NextNorm]_vars

StartCache == InitCache /\ RestIdx /\ RestKey /\ RestNorm

SpecCache == StartCache /\ [][NextCache]_vars

(***************************************************************************)
(* What the claims speak of, stated over the histories and not through the *)
(* program's own operators.                                                *)
(***************************************************************************)
Min(S) == CHOOSE x \in S : \A y \in S : x <= y

Max(S) == CHOOSE x \in S : \A y \in S : y <= x

NonSpaceAt(s) == {i \in 1..Len(s) : s[i] # " "}

\* s without its leading and trailing whitespace
Trim(s) ==
    IF NonSpaceAt(s) = {} THEN <<>> ELSE SubSeq(s, Min(NonSpaceAt(s)), Max(NonSpaceAt(s)))

LowerCase(s) == [i \in 1..Len(s) |-> IF s[i] = "A" THEN "a" ELSE s[i]]

NonZeroAt(s) == {i \in 1..Len(s) : s[i] # "0"}

\* s with all its leading '0' characters removed
stripLeadingZeros(s) ==
    IF NonZeroAt(s) = {} THEN <<>> ELSE SubSeq(s, Min(NonZeroAt(s)), Len(s))

\* trim, lowercase, remove the leading zeros; the trimmed lowercased string is
\* kept when that leaves nothing
normalizeKey(s) ==
    LET t == LowerCase(Trim(s)) IN
    IF stripLeadingZeros(t) = <<>> THEN t ELSE stripLeadingZeros(t)

\* The variants served so far: <<n, i, j>> is variant j of product i of the
\* n-th served page.
Positions ==
    {<<n, i, j>> \in (1..Len(served)) \X (1..MaxProducts) \X (1..MaxVariants) :
        i <= Len(served[n]) /\ j <= Len(served[n][i])}

VariantAt(p) == served[p[1]][p[2]][p[3]]

Before(p, q) ==
    \/ p[1] < q[1]
    \/ p[1] = q[1] /\ p[2] < q[2]
    \/ p[1] = q[1] /\ p[2] = q[2] /\ p[3] < q[3]

\* The variants with a non-empty SKU.
Carrying == {p \in Positions : VariantAt(p).wf /\ VariantAt(p).sku # <<>>}

\* Those of them the indexer got to: no malformed variant at or before them on
\* their page.
Processed ==
    {p \in Carrying :
        \A q \in Positions : q[1] = p[1] /\ ~VariantAt(q).wf => Before(p, q)}

RecordOf(p) == [sku |-> VariantAt(p).sku, variant_id |-> p]

Latest(S) == CHOOSE p \in S : \A q \in S : q = p \/ Before(q, p)

UpTo(n) == [i \in 1..n |-> i]

\* C1: a first fetch_catalog call that ends at an empty page after k served
\* pages has left its loop, has requested exactly the pages 1, ..., k+1 in that
\* order, and the catalog holds an entry for exactly the SKU-carrying variants of
\* the k pages (k = 0: an empty catalog and the count 0).
C1_ExhaustedFeedIsIndexed ==
    (calls = 1 /\ endReason = "empty") =>
        /\ pc \in {"closing", "idle"}
        /\ requests = UpTo(Len(served) + 1)
        /\ DOMAIN catalog = {normalizeKey(VariantAt(p).sku) : p \in Carrying}
        /\ \A k \in DOMAIN catalog :
             \E p \in Carrying :
                 normalizeKey(VariantAt(p).sku) = k /\ catalog[k] = RecordOf(p)
        /\ served = <<>> =>
             /\ catalog = EmptyCatalog
             /\ total_skus = 0
             /\ pc = "idle" => ret = 0

C1_Witness ==
    /\ calls = 1 /\ endReason = "empty" /\ pc = "idle"
    /\ Len(served) = 2
    /\ Cardinality(DOMAIN catalog) = 2

Failures == {"status", "exception", "body", "index"}

\* C2: once the request for page p has failed, the call has left its loop and
\* returns normally, the pages requested are exactly 1, ..., p (p once, none
\* after it), and every entry indexed so far is still in the catalog, under its
\* key, as itself or as a later variant of the same key.
C2_FailureEndsPagination ==
    endReason \in Failures =>
        /\ pc \in {"closing", "idle"}
        /\ requests = UpTo(page)
        /\ pc = "idle" => indexed /\ ret >= 0
        /\ \A p \in Processed :
             /\ normalizeKey(VariantAt(p).sku) \in DOMAIN catalog
             /\ ~Before(catalog[normalizeKey(VariantAt(p).sku)].variant_id, p)

C2_Witness ==
    /\ endReason = "status" /\ pc = "idle"
    /\ page = 2 /\ requests = <<1, 2>>
    /\ Cardinality(DOMAIN catalog) = 2

\* A lookup_sku call has just returned on an indexer whose fetch_catalog has
\* returned before.
LookedUp == lk.acted /\ indexed

SameKey(q) == {p \in Processed : normalizeKey(VariantAt(p).sku) = normalizeKey(q)}

\* a and b differ at most by leading zeros, letter case and surrounding
\* whitespace.
DifferOnlyInForm(a, b) ==
    /\ Trim(a) # <<>> /\ Trim(b) # <<>>
    /\ stripLeadingZeros(LowerCase(Trim(a))) = stripLeadingZeros(LowerCase(Trim(b)))

C8_LookupBeforeFetchIsNone ==
    (calls = 0 /\ lk.acted) =>
        /\ lk.res = None
        /\ catalog = EmptyCatalog
        /\ indexed = FALSE

C8_Witness == calls = 0 /\ lk.acted /\ lk.q = <<"0", "A">>

\* C9: whenever fetch_catalog has returned, the integer it returned is the
\* number of entries of the catalog.
C9_ReturnIsCatalogSize ==
    (pc = "idle" /\ calls > 0) => ret = Cardinality(DOMAIN catalog)

\* C10: every key of the catalog is a non-empty string.
C10_KeysNonEmpty == \A k \in DOMAIN catalog : k # <<>>

\* normalizeKey(s) = normalizeKey(stripLeadingZeros(s)) for the key computation
\* that was applied to the raw SKU.
KeyOfStripped ==
    IF keyed.by = "index" THEN IndexKey(stripLeadingZeros(raw))
    ELSE LookupKey(stripLeadingZeros(raw))

\* C5, as claimed: for every raw SKU s, the key of s is the key of s without its
\* leading zeros, at indexing and at lookup.
C5_KeyIgnoresLeadingZeros == keyed.by # "none" => keyed.key = KeyOfStripped

\* The first character after the leading zeros of s exists and is no
\* whitespace, or s has no leading zero.
ZerosBeforeText(s) ==
    \/ stripLeadingZeros(s) = s
    \/ stripLeadingZeros(s) # <<>> /\ stripLeadingZeros(s)[1] # " "

\* C5, as amended: for every raw SKU s that has no leading zero, or whose leading
\* zeros are followed by a character that is no whitespace, the key of s is the
\* key of s without its leading zeros, at indexing and at lookup; and it is the
\* key the claim describes.
C5_KeyIgnoresZerosBeforeText ==
    keyed.by # "none" =>
        /\ keyed.key = normalizeKey(raw)
        /\ ZerosBeforeText(raw) => keyed.key = KeyOfStripped

C5_Witness ==
    /\ keyed.by = "index"
    /\ raw = <<"0", "0", "A">>
    /\ keyed.key = <<"a">>

\* The sku and the url of row i as _normalise_rows reads them: the columns
\* "SKU" and "sku" (the first that holds a value), "URL" and "url", trimmed.
FieldSku(i) == Trim(IF get(rows[i], "SKU") # <<>> THEN rows[i]["SKU"] ELSE get(rows[i], "sku"))

FieldUrl(i) == Trim(IF get(rows[i], "URL") # <<>> THEN rows[i]["URL"] ELSE get(rows[i], "url"))

\* The rows read so far that have a sku or a url, their keys, and the first
\* row of each key.
Identified == {i \in 1..(ri - 1) : FieldSku(i) # <<>> \/ FieldUrl(i) # <<>>}

ItemKey(i) == <<LowerCase(FieldSku(i)), LowerCase(FieldUrl(i))>>

Firsts == {i \in Identified : \A j \in Identified : j < i => ItemKey(j) # ItemKey(i)}

\* The m-th first occurrence, in input order.
NthFirst(m) == CHOOSE f \in Firsts : Cardinality({g \in Firsts : g <= f}) = m

\* C4: after any number of rows, the output holds one Item per distinct key of
\* the rows read that have a sku or url, with the trimmed sku and url of the
\* first row of that key, in the order of these first rows.
C4_OneItemPerKeyInFirstOrder ==
    /\ Len(out) = Cardinality(Firsts)
    /\ \A m \in 1..Len(out) :
         out[m] = [sku |-> FieldSku(NthFirst(m)), url |-> FieldUrl(NthFirst(m))]

C4_Witness ==
    /\ ri = 3
    /\ rows = << [c \in {"sku"} |-> <<"A", " ">>], [c \in {"SKU"} |-> <<"a">>] >>
    /\ out = << [sku |-> <<"A">>, url |-> <<>>] >>

FoldCol(c) == IF c \in {"SKU", "sku", "Sku"} THEN "sku" ELSE "url"

\* C7: every row read that has one column named sku, in any letter case, with a
\* value that is not blank, is not dropped: the output has an Item of that sku;
\* and likewise for url.
C7_ColumnsFoundInAnyCase ==
    \A i \in 1..(ri - 1) : \A c \in DOMAIN rows[i] :
        /\ Trim(rows[i][c]) # <<>>
        /\ \A d \in DOMAIN rows[i] : FoldCol(d) = FoldCol(c) => d = c
        => \E m \in 1..Len(out) :
               LowerCase(IF FoldCol(c) = "sku" THEN out[m].sku ELSE out[m].url)
                   = LowerCase(Trim(rows[i][c]))

\* C3: between two cache-clearing events at most one fetch_catalog run is
\* started for an origin.
C3_OneFetchPerOriginAndWindow == \A o \in Origins : fetches[o] <= 1

====
